---- MODULE Spec2Model ----
(***************************************************************************)
(* A model of the ledger core of rust-components: crypto.rs (digest, key   *)
(* pair, sign, verify) and blockchain.rs (Transaction, Block, Blockchain). *)
(*                                                                         *)
(* Strings are sequences of byte values (ASCII codes), so that format!     *)
(* concatenation, decimal formatting of integers, hex encoding, prefix     *)
(* tests and slicing are computed character by character.  SHA-256 is      *)
(* replaced by a small deterministic digest of HashLen hex characters      *)
(* (the real one has 64); every operator that uses the digest is written   *)
(* as the source writes it.                                                *)
(***************************************************************************)
EXTENDS Integers, Sequences, FiniteSets, TLC

VARIABLES
    chain,                  \* Blockchain.chain: Seq(Block)
    pending_transactions,   \* Blockchain.pending_transactions: Seq(Transaction)
    difficulty,             \* Blockchain.difficulty
    mining_reward,          \* Blockchain.mining_reward
    now,                    \* SystemTime::now() in seconds
    ret,                    \* the result of the call made by the last step
    block,                  \* a Block held by a caller outside any chain (None or Some)
    txn,                    \* a Transaction held by a caller, with the key pair used on it
    tampered                \* the field of a committed block changed behind the ledger's back

vars == <<chain, pending_transactions, difficulty, mining_reward, now, ret,
          block, txn, tampered>>

ledger == <<chain, pending_transactions, difficulty, mining_reward>>

----------------------------------------------------------------------------
(* Bounds of the model *)

HashLen == 3        \* hex characters of a digest (64 in the source)
PubKeyLen == 2      \* hex characters kept of a public key (40 of 64 in the source)
MaxTx == 2          \* transactions submitted to the ledger and accepted
MaxTime == 1        \* last second of the clock
NonceCap == 40      \* nonces tried by one proof-of-work search

----------------------------------------------------------------------------
(* Strings *)

None == << >>
Some(x) == <<x>>
IsNone(o) == o = << >>
IsSome(o) == o /= << >>
Unwrap(o) == o[1]

ZERO == 48          \* the character '0'
COLON == <<58>>     \* ":"
EMPTY == << >>      \* ""

SYSTEM == <<83, 121, 115, 116, 101, 109>>               \* "System"
REWARD == <<82, 101, 119, 97, 114, 100, 58, 32>>        \* "Reward: "
GENESIS_PREVIOUS_HASH == <<48>>                         \* "0"
alice == <<97, 108, 105, 99, 101>>
bob == <<98, 111, 98>>
carol == <<99, 97, 114, 111, 108>>
sample == <<115, 97, 109, 112, 108, 101>>
scan == <<115, 99, 97, 110>>

\* format!("{}", n) of an unsigned integer
RECURSIVE ToDec(_)
ToDec(n) == IF n < 10 THEN <<ZERO + n>> ELSE ToDec(n \div 10) \o <<ZERO + (n % 10)>>

\* "0".repeat(n)
Repeat0(n) == [i \in 1..n |-> ZERO]

\* s.starts_with(p)
StartsWith(s, p) == Len(p) <= Len(s) /\ SubSeq(s, 1, Len(p)) = p

\* concatenation of a sequence of strings, in order
RECURSIVE Concat(_)
Concat(ss) == IF ss = << >> THEN << >> ELSE Head(ss) \o Concat(Tail(ss))

----------------------------------------------------------------------------
(* crypto.rs *)

HashMod == 16 ^ HashLen

RECURSIVE Absorb(_, _, _)
Absorb(h, data, i) ==
    IF i > Len(data) THEN h
    ELSE Absorb((h * 39 + data[i]) % HashMod, data, i + 1)

\* hex::encode: one lower-case hex character per nibble
HexChar(v) == IF v < 10 THEN ZERO + v ELSE 87 + v

hash_sha256(data) ==
    LET h == Absorb(5381 % HashMod, data, 1)
    IN  [i \in 1..HashLen |-> HexChar((h \div (16 ^ (i - 1))) % 16)]

\* generate_keypair, for the random private key drawn by generate_key
generate_keypair(private_key) ==
    <<private_key, SubSeq(hash_sha256(private_key), 1, PubKeyLen)>>

sign_data(data, private_key) == hash_sha256(data \o COLON \o private_key)

verify_signature(data, signature, public_key) ==
    SubSeq(hash_sha256(signature), 1, PubKeyLen) = public_key

----------------------------------------------------------------------------
(* blockchain.rs: Transaction *)

\* TransactionType: the name of the variant, followed for Custom by the string
\* it carries
DataSubmission == <<"DataSubmission">>
DataAccess == <<"DataAccess">>
TokenTransfer == <<"TokenTransfer">>
Custom(s) == <<"Custom", s>>

Transaction_new(transaction_type, sender, data, t) ==
    [ id               |-> hash_sha256(sender \o ToDec(t) \o data),
      transaction_type |-> transaction_type,
      sender           |-> sender,
      recipient        |-> None,
      timestamp        |-> t,
      data             |-> data,
      signature        |-> None,
      gas_fee          |-> None,
      status           |-> "Pending" ]

with_recipient(tx, recipient) == [tx EXCEPT !.recipient = Some(recipient)]

with_gas_fee(tx, gas_fee) == [tx EXCEPT !.gas_fee = Some(gas_fee)]

to_signing_string(tx) ==
    tx.id \o COLON \o tx.sender \o COLON
          \o (IF IsSome(tx.recipient) THEN Unwrap(tx.recipient) ELSE EMPTY) \o COLON
          \o ToDec(tx.timestamp) \o COLON \o tx.data

\* Transaction::sign; sign_data has no failing path
sign(tx, private_key) ==
    [tx EXCEPT !.signature = Some(sign_data(to_signing_string(tx), private_key))]

\* The error of a signing that failed (a Box<dyn Error> in the source)
SigningFailure == "SigningFailure"

\* sign_data with its Result: the only return is the Ok of crypto.rs:59
sign_data_result(data, private_key) ==
    [ok |-> TRUE, value |-> sign_data(data, private_key)]

\* Transaction::sign with its Result: the `?` returns the error of sign_data
\* before the signature is written
sign_result(tx, private_key) ==
    LET message == to_signing_string(tx)
        signature == sign_data_result(message, private_key)
    IN  IF ~signature.ok
        THEN [tx |-> tx, ok |-> FALSE, err |-> SigningFailure]
        ELSE [tx |-> [tx EXCEPT !.signature = Some(signature.value)], ok |-> TRUE, err |-> ""]

Transaction_verify_signature(tx, public_key) ==
    IF IsSome(tx.signature)
    THEN verify_signature(to_signing_string(tx), Unwrap(tx.signature), public_key)
    ELSE FALSE

----------------------------------------------------------------------------
(* blockchain.rs: Block *)

calculate_hash(b) ==
    LET tx_data == Concat([i \in 1..Len(b.transactions) |-> b.transactions[i].id])
    IN  hash_sha256(ToDec(b.index) \o b.previous_hash \o ToDec(b.timestamp)
                                  \o tx_data \o ToDec(b.nonce))

Block_new(index, previous_hash, transactions, d, t) ==
    LET b0 == [ index         |-> index,
                timestamp     |-> t,
                transactions  |-> transactions,
                previous_hash |-> previous_hash,
                hash          |-> EMPTY,
                nonce         |-> 0,
                difficulty    |-> d ]
    IN  [b0 EXCEPT !.hash = calculate_hash(b0)]

\* The while loop of Block::mine.  The search is cut after NonceCap nonces; a
\* search that is cut has not returned (MineReturns).
RECURSIVE MineLoop(_, _)
MineLoop(b, target_prefix) ==
    IF StartsWith(b.hash, target_prefix) \/ b.nonce >= NonceCap THEN b
    ELSE LET b1 == [b EXCEPT !.nonce = b.nonce + 1]
         IN  MineLoop([b1 EXCEPT !.hash = calculate_hash(b1)], target_prefix)

\* Block::mine stepping to the next nonce before the first test of the hash
mine_from_next_nonce(b) ==
    LET b1 == [b EXCEPT !.nonce = b.nonce + 1]
    IN  MineLoop([b1 EXCEPT !.hash = calculate_hash(b1)], Repeat0(b.difficulty))

mine(b) == MineLoop(b, Repeat0(b.difficulty))

\* mine() has returned b: the loop's exit condition holds of it
Returned(b) == StartsWith(b.hash, Repeat0(b.difficulty))

MineReturns(b) == Returned(mine(b))

is_valid(b) ==
    LET target_prefix == Repeat0(b.difficulty)
        calculated_hash == calculate_hash(b)
    IN  calculated_hash = b.hash /\ StartsWith(b.hash, target_prefix)

----------------------------------------------------------------------------
(* blockchain.rs: Blockchain *)

create_genesis_block(d, t) == Block_new(0, GENESIS_PREVIOUS_HASH, << >>, d, t)

is_valid_new_block(new_block, previous_block) ==
    IF new_block.index /= previous_block.index + 1 THEN FALSE
    ELSE IF new_block.previous_hash /= previous_block.hash THEN FALSE
    ELSE IF ~is_valid(new_block) THEN FALSE
    ELSE TRUE

is_chain_valid(c) ==
    IF c = << >> THEN FALSE
    ELSE \A i \in 2..Len(c) : is_valid_new_block(c[i], c[i - 1])

\* The error kinds of the ledger (the source returns them as messages)
InvalidTransaction == "InvalidTransaction"      \* blockchain.rs:244
EmptyPool == "EmptyPool"                        \* blockchain.rs:254
ChainEmpty == "ChainEmpty"                      \* blockchain.rs:268
InvalidBlock == "InvalidBlock"                  \* blockchain.rs:282

NoCall ==
    [op |-> "none", tx |-> None, miner |-> EMPTY, ok |-> TRUE, err |-> "",
     block |-> None, mined |-> FALSE, id |-> EMPTY, found |-> None,
     value |-> None, decoded |-> None]

\* The reward transaction paid to the sender instead of the miner
reward_tx_to_system(miner_address, reward, t) ==
    with_recipient(
        Transaction_new(TokenTransfer, SYSTEM, REWARD \o ToDec(reward), t),
        SYSTEM)

\* The reward transaction of a mining round
reward_tx(miner_address, reward, t) ==
    with_recipient(
        Transaction_new(TokenTransfer, SYSTEM, REWARD \o ToDec(reward), t),
        miner_address)

\* The candidate block with the transactions it takes in marked confirmed
new_block_confirming(c, pool, d, reward, miner_address, t) ==
    LET transactions_to_mine == Append(pool, reward_tx(miner_address, reward, t))
        latest_block == c[Len(c)]
        new_index == latest_block.index + 1
        previous_hash == latest_block.hash
    IN  mine(Block_new(new_index, previous_hash,
                       [k \in 1..Len(transactions_to_mine) |->
                           [transactions_to_mine[k] EXCEPT !.status = "Confirmed"]],
                       d, t))

\* The candidate block built at the index of the latest block
new_block_at_latest_index(c, pool, d, reward, miner_address, t) ==
    LET transactions_to_mine == Append(pool, reward_tx(miner_address, reward, t))
        latest_block == c[Len(c)]
        new_index == latest_block.index
        previous_hash == latest_block.hash
    IN  mine(Block_new(new_index, previous_hash, transactions_to_mine, d, t))

\* The candidate block of a mining round, mined
new_block(c, pool, d, reward, miner_address, t) ==
    LET transactions_to_mine == Append(pool, reward_tx(miner_address, reward, t))
        latest_block == c[Len(c)]
        new_index == latest_block.index + 1
        previous_hash == latest_block.hash
    IN  mine(Block_new(new_index, previous_hash, transactions_to_mine, d, t))

\* add_transaction with the push moved before the signature check
add_transaction_push_first(pool, transaction) ==
    IF IsNone(transaction.signature)
    THEN [pool |-> Append(pool, transaction), ok |-> FALSE, err |-> InvalidTransaction]
    ELSE [pool |-> Append(pool, transaction), ok |-> TRUE, err |-> ""]

\* add_transaction inserting at the front of the pool
add_transaction_insert_front(pool, transaction) ==
    IF IsNone(transaction.signature)
    THEN [pool |-> pool, ok |-> FALSE, err |-> InvalidTransaction]
    ELSE [pool |-> <<transaction>> \o pool, ok |-> TRUE, err |-> ""]

\* add_transaction starting the pool over with the accepted transaction
add_transaction_replace_pool(pool, transaction) ==
    IF IsNone(transaction.signature)
    THEN [pool |-> pool, ok |-> FALSE, err |-> InvalidTransaction]
    ELSE [pool |-> <<transaction>>, ok |-> TRUE, err |-> ""]

\* add_transaction without the test for a signature
add_transaction_unchecked(pool, transaction) ==
    [pool |-> Append(pool, transaction), ok |-> TRUE, err |-> ""]

\* add_transaction: the ledger after the call and the result
add_transaction_result(pool, transaction) ==
    IF IsNone(transaction.signature)
    THEN [pool |-> pool, ok |-> FALSE, err |-> InvalidTransaction]
    ELSE [pool |-> Append(pool, transaction), ok |-> TRUE, err |-> ""]

\* mine_pending_transactions pushing the candidate as built, not the mined one
mine_pending_push_unmined(c, pool, d, reward, miner_address, t) ==
    IF pool = << >>
    THEN [chain |-> c, pool |-> pool, ok |-> FALSE, err |-> EmptyPool,
          block |-> None, mined |-> FALSE, candidate |-> None]
    ELSE IF c = << >>
    THEN [chain |-> c, pool |-> pool, ok |-> FALSE, err |-> ChainEmpty,
          block |-> None, mined |-> FALSE, candidate |-> None]
    ELSE LET nb == new_block(c, pool, d, reward, miner_address, t)
             built == Block_new(nb.index, nb.previous_hash, nb.transactions, d, t)
         IN  IF is_valid_new_block(nb, c[Len(c)])
             THEN [chain |-> Append(c, built), pool |-> << >>, ok |-> TRUE, err |-> "",
                   block |-> Some(built), mined |-> TRUE, candidate |-> Some(nb)]
             ELSE [chain |-> c, pool |-> pool, ok |-> FALSE, err |-> InvalidBlock,
                   block |-> None, mined |-> TRUE, candidate |-> Some(nb)]

\* mine_pending_transactions without the clearing of the pool
mine_pending_keep_pool(c, pool, d, reward, miner_address, t) ==
    IF pool = << >>
    THEN [chain |-> c, pool |-> pool, ok |-> FALSE, err |-> EmptyPool,
          block |-> None, mined |-> FALSE, candidate |-> None]
    ELSE IF c = << >>
    THEN [chain |-> c, pool |-> pool, ok |-> FALSE, err |-> ChainEmpty,
          block |-> None, mined |-> FALSE, candidate |-> None]
    ELSE LET nb == new_block(c, pool, d, reward, miner_address, t)
         IN  IF is_valid_new_block(nb, c[Len(c)])
             THEN [chain |-> Append(c, nb), pool |-> pool, ok |-> TRUE, err |-> "",
                   block |-> Some(nb), mined |-> TRUE, candidate |-> Some(nb)]
             ELSE [chain |-> c, pool |-> pool, ok |-> FALSE, err |-> InvalidBlock,
                   block |-> None, mined |-> TRUE, candidate |-> Some(nb)]

\* mine_pending_transactions without the test for an empty pool
mine_pending_no_pool_test(c, pool, d, reward, miner_address, t) ==
    IF c = << >>
    THEN [chain |-> c, pool |-> pool, ok |-> FALSE, err |-> ChainEmpty,
          block |-> None, mined |-> FALSE, candidate |-> None]
    ELSE LET nb == new_block(c, pool, d, reward, miner_address, t)
         IN  IF is_valid_new_block(nb, c[Len(c)])
             THEN [chain |-> Append(c, nb), pool |-> << >>, ok |-> TRUE, err |-> "",
                   block |-> Some(nb), mined |-> TRUE, candidate |-> Some(nb)]
             ELSE [chain |-> c, pool |-> pool, ok |-> FALSE, err |-> InvalidBlock,
                   block |-> None, mined |-> TRUE, candidate |-> Some(nb)]

\* mine_pending_transactions putting the mined block in front of the chain
mine_pending_push_front(c, pool, d, reward, miner_address, t) ==
    IF pool = << >>
    THEN [chain |-> c, pool |-> pool, ok |-> FALSE, err |-> EmptyPool,
          block |-> None, mined |-> FALSE, candidate |-> None]
    ELSE IF c = << >>
    THEN [chain |-> c, pool |-> pool, ok |-> FALSE, err |-> ChainEmpty,
          block |-> None, mined |-> FALSE, candidate |-> None]
    ELSE LET nb == new_block(c, pool, d, reward, miner_address, t)
         IN  IF is_valid_new_block(nb, c[Len(c)])
             THEN [chain |-> <<nb>> \o c, pool |-> << >>, ok |-> TRUE, err |-> "",
                   block |-> Some(nb), mined |-> TRUE, candidate |-> Some(nb)]
             ELSE [chain |-> c, pool |-> pool, ok |-> FALSE, err |-> InvalidBlock,
                   block |-> None, mined |-> TRUE, candidate |-> Some(nb)]

\* mine_pending_transactions reporting an empty chain as an invalid block
mine_pending_no_chain_error(c, pool, d, reward, miner_address, t) ==
    IF pool = << >>
    THEN [chain |-> c, pool |-> pool, ok |-> FALSE, err |-> EmptyPool,
          block |-> None, mined |-> FALSE, candidate |-> None]
    ELSE IF c = << >>
    THEN [chain |-> c, pool |-> pool, ok |-> FALSE, err |-> InvalidBlock,
          block |-> None, mined |-> FALSE, candidate |-> None]
    ELSE LET nb == new_block(c, pool, d, reward, miner_address, t)
         IN  IF is_valid_new_block(nb, c[Len(c)])
             THEN [chain |-> Append(c, nb), pool |-> << >>, ok |-> TRUE, err |-> "",
                   block |-> Some(nb), mined |-> TRUE, candidate |-> Some(nb)]
             ELSE [chain |-> c, pool |-> pool, ok |-> FALSE, err |-> InvalidBlock,
                   block |-> None, mined |-> TRUE, candidate |-> Some(nb)]

\* mine_pending_transactions run beside an add_transaction: the last entry of
\* the pool came in after the pool was copied for the block and before the
\* pool was cleared
mine_pending_add_between(c, pool, d, reward, miner_address, t) ==
    IF pool = << >>
    THEN [chain |-> c, pool |-> pool, ok |-> FALSE, err |-> EmptyPool,
          block |-> None, mined |-> FALSE, candidate |-> None]
    ELSE IF c = << >>
    THEN [chain |-> c, pool |-> pool, ok |-> FALSE, err |-> ChainEmpty,
          block |-> None, mined |-> FALSE, candidate |-> None]
    ELSE LET nb == new_block(c, SubSeq(pool, 1, Len(pool) - 1), d, reward,
                             miner_address, t)
         IN  IF is_valid_new_block(nb, c[Len(c)])
             THEN [chain |-> Append(c, nb), pool |-> << >>, ok |-> TRUE, err |-> "",
                   block |-> Some(nb), mined |-> TRUE, candidate |-> Some(nb)]
             ELSE [chain |-> c, pool |-> pool, ok |-> FALSE, err |-> InvalidBlock,
                   block |-> None, mined |-> TRUE, candidate |-> Some(nb)]

\* mine_pending_transactions: the ledger after the call and the result
mine_pending_result(c, pool, d, reward, miner_address, t) ==
    IF pool = << >>
    THEN [chain |-> c, pool |-> pool, ok |-> FALSE, err |-> EmptyPool,
          block |-> None, mined |-> FALSE, candidate |-> None]
    ELSE IF c = << >>
    THEN [chain |-> c, pool |-> pool, ok |-> FALSE, err |-> ChainEmpty,
          block |-> None, mined |-> FALSE, candidate |-> None]
    ELSE LET nb == new_block(c, pool, d, reward, miner_address, t)
         IN  IF is_valid_new_block(nb, c[Len(c)])
             THEN [chain |-> Append(c, nb), pool |-> << >>, ok |-> TRUE, err |-> "",
                   block |-> Some(nb), mined |-> TRUE, candidate |-> Some(nb)]
             ELSE [chain |-> c, pool |-> pool, ok |-> FALSE, err |-> InvalidBlock,
                   block |-> None, mined |-> TRUE, candidate |-> Some(nb)]

----------------------------------------------------------------------------
(* The callers' inputs *)

\* Blockchain::new(difficulty, mining_reward) as the callers make it
Configs == { <<0, 50>>, <<1, 10>> }
Miners == {bob, carol}
PrivateKeys == { <<51, 102>>, <<97, 48>> }      \* "3f", "a0"

\* Transactions a caller submits at time t: built by Transaction::new in that
\* second, with or without recipient and fee, then left unsigned, signed with a
\* key (Transaction::sign), or given a signature field that is the signing of
\* nothing (the field is public).
TxInputs(t) ==
    LET a == Transaction_new(DataSubmission, alice, sample, t)
        b == with_gas_fee(with_recipient(
                 Transaction_new(DataAccess, bob, scan, t), alice), 21000)
    IN  { a, sign(a, <<51, 102>>), [b EXCEPT !.signature = Some(<<97, 48>>)] }

----------------------------------------------------------------------------
(* The ledger *)

Blockchain_new(d, reward, t) ==
    [chain |-> <<create_genesis_block(d, t)>>, pending_transactions |-> << >>,
     difficulty |-> d, mining_reward |-> reward]

\* The transactions the ledger holds that came in by add_transaction: the pool,
\* and every transaction of a block but its reward
RECURSIVE Committed(_)
Committed(c) ==
    IF c = << >> THEN 0
    ELSE Committed(SubSeq(c, 1, Len(c) - 1))
         + (IF Len(c[Len(c)].transactions) = 0 THEN 0 ELSE Len(c[Len(c)].transactions) - 1)

Accepted(c, pool) == Committed(c) + Len(pool)

\* No block and no transaction held outside the ledger, nothing tampered with
NoBlock == [b |-> None, op |-> "none"]

NoTxn == [tx |-> None, keypair |-> None, signed_with |-> None, sign_ret |-> None,
          verified |-> None]

Idle == /\ block = NoBlock
        /\ txn = NoTxn
        /\ tampered = None

Init ==
    /\ now = 0
    /\ \E cfg \in Configs :
          LET bc == Blockchain_new(cfg[1], cfg[2], now)
          IN  /\ chain = bc.chain
              /\ pending_transactions = bc.pending_transactions
              /\ difficulty = bc.difficulty
              /\ mining_reward = bc.mining_reward
    /\ ret = NoCall
    /\ Idle

Tick ==
    /\ now < MaxTime
    /\ now' = now + 1
    /\ ret' = NoCall
    /\ UNCHANGED <<ledger, block, txn, tampered>>

add_transaction(transaction) ==
    LET r == add_transaction_result(pending_transactions, transaction)
    IN  /\ Accepted(chain, pending_transactions) < MaxTx
        /\ pending_transactions' = r.pool
        /\ ret' = [NoCall EXCEPT !.op = "add_transaction", !.tx = Some(transaction),
                                 !.ok = r.ok, !.err = r.err]
        /\ UNCHANGED <<chain, difficulty, mining_reward, now, block, txn, tampered>>

mine_pending_transactions(miner_address) ==
    /\ LET r == mine_pending_result(chain, pending_transactions, difficulty,
                                    mining_reward, miner_address, now)
       IN  /\ r.mined => Returned(Unwrap(r.candidate))
           /\ chain' = r.chain
           /\ pending_transactions' = r.pool
           /\ ret' = [NoCall EXCEPT !.op = "mine_pending_transactions",
                                    !.miner = miner_address, !.ok = r.ok, !.err = r.err,
                                    !.block = r.block, !.mined = r.mined]
    /\ UNCHANGED <<difficulty, mining_reward, now, block, txn, tampered>>

AddTransaction == \E transaction \in TxInputs(now) : add_transaction(transaction)

MinePendingTransactions == \E miner_address \in Miners : mine_pending_transactions(miner_address)

Next ==
    \/ Tick
    \/ AddTransaction
    \/ MinePendingTransactions

Spec == Init /\ [][Next]_vars

----------------------------------------------------------------------------
(* Looking a transaction up *)

\* for tx in txs { if tx.id == transaction_id { return Some(tx) } }: the
\* position of the first transaction with this id from position i on, 0 when
\* the loop runs to its end
RECURSIVE FirstWithId(_, _, _)
FirstWithId(txs, transaction_id, i) ==
    IF i > Len(txs) THEN 0
    ELSE IF txs[i].id = transaction_id THEN i
    ELSE FirstWithId(txs, transaction_id, i + 1)

\* for block in &self.chain { for tx in &block.transactions { .. } }, from
\* block i on.  The reference returned is the place it points to, with the
\* transaction found there.
RECURSIVE ScanBlocks(_, _, _)
ScanBlocks(c, transaction_id, i) ==
    IF i > Len(c) THEN None
    ELSE LET j == FirstWithId(c[i].transactions, transaction_id, 1)
         IN  IF j > 0
             THEN Some([place |-> "chain", block |-> i, at |-> j,
                        tx |-> c[i].transactions[j]])
             ELSE ScanBlocks(c, transaction_id, i + 1)

\* find_transaction looking in the committed blocks before the pool
find_transaction_chain_first(c, pool, transaction_id) ==
    LET r == ScanBlocks(c, transaction_id, 1)
        k == FirstWithId(pool, transaction_id, 1)
    IN  IF IsSome(r) THEN r
        ELSE IF k > 0
        THEN Some([place |-> "pending_transactions", block |-> 0, at |-> k, tx |-> pool[k]])
        ELSE None

find_transaction(c, pool, transaction_id) ==
    LET k == FirstWithId(pool, transaction_id, 1)
    IN  IF k > 0
        THEN Some([place |-> "pending_transactions", block |-> 0, at |-> k, tx |-> pool[k]])
        ELSE ScanBlocks(c, transaction_id, 1)

\* The ids callers ask for: of the transactions they may submit now, of the
\* transactions in the blocks, and one that belongs to no transaction built here
QueryIds ==
    { tx.id : tx \in TxInputs(now) }
    \cup UNION { { chain[i].transactions[j].id : j \in 1..Len(chain[i].transactions) } :
                 i \in 1..Len(chain) }
    \cup { hash_sha256(EMPTY) }

FindTransaction ==
    \E transaction_id \in QueryIds :
       /\ ret' = [NoCall EXCEPT !.op = "find_transaction", !.id = transaction_id,
                                !.found = find_transaction(chain, pending_transactions,
                                                           transaction_id)]
       /\ UNCHANGED <<ledger, now, block, txn, tampered>>

NextFind ==
    \/ Next
    \/ FindTransaction

SpecFind == Init /\ [][NextFind]_vars

----------------------------------------------------------------------------
(* JSON: serde's derived Serialize and Deserialize, through serde_json *)

\* A JSON document is kept as the value it denotes: null, a number, a string,
\* an array of values, or an object (a record of values by member name).
\* A Result is kept as an Option: None is the Err of serde_json.
JNull == <<"null">>
JNumber(n) == <<"number", n>>
JString(s) == <<"string", s>>
JArray(a) == <<"array", a>>
JObject(members) == <<"object", members>>

\* Option<String> with None written as the empty string
Option_String_to_json_none_as_empty(o) ==
    IF IsNone(o) THEN JString(EMPTY) ELSE JString(Unwrap(o))

\* Option<String>, Option<u64>: None is written as null, Some(x) as x is
\* written
Option_String_to_json(o) == IF IsNone(o) THEN JNull ELSE JString(Unwrap(o))

Option_u64_to_json(o) == IF IsNone(o) THEN JNull ELSE JNumber(Unwrap(o))

\* TransactionType: a variant without data is written as its name, Custom(s)
\* as an object with the one member "Custom"
TransactionType_to_json(transaction_type) ==
    IF transaction_type[1] = "Custom"
    THEN JObject([Custom |-> JString(transaction_type[2])])
    ELSE JString(transaction_type[1])

TransactionStatus_to_json(status) == JString(status)

Transaction_to_json(tx) ==
    JObject([ id               |-> JString(tx.id),
              transaction_type |-> TransactionType_to_json(tx.transaction_type),
              sender           |-> JString(tx.sender),
              recipient        |-> Option_String_to_json(tx.recipient),
              timestamp        |-> JNumber(tx.timestamp),
              data             |-> JString(tx.data),
              signature        |-> Option_String_to_json(tx.signature),
              gas_fee          |-> Option_u64_to_json(tx.gas_fee),
              status           |-> TransactionStatus_to_json(tx.status) ])

\* Vec<Transaction>: an array of the elements as they are written, in order
Vec_Transaction_to_json(v) == JArray([i \in 1..Len(v) |-> Transaction_to_json(v[i])])

Block_to_json(b) ==
    JObject([ index         |-> JNumber(b.index),
              timestamp     |-> JNumber(b.timestamp),
              transactions  |-> Vec_Transaction_to_json(b.transactions),
              previous_hash |-> JString(b.previous_hash),
              hash          |-> JString(b.hash),
              nonce         |-> JNumber(b.nonce),
              difficulty    |-> JNumber(b.difficulty) ])

Vec_Block_to_json(v) == JArray([i \in 1..Len(v) |-> Block_to_json(v[i])])

Blockchain_to_json(bc) ==
    JObject([ chain                |-> Vec_Block_to_json(bc.chain),
              pending_transactions |-> Vec_Transaction_to_json(bc.pending_transactions),
              difficulty           |-> JNumber(bc.difficulty),
              mining_reward        |-> JNumber(bc.mining_reward) ])

\* String, u64 and u8 are read from a string and from a number in range
String_from_json(json) == IF json[1] = "string" THEN Some(json[2]) ELSE None

u64_from_json(json) ==
    IF json[1] = "number" /\ json[2] >= 0 THEN Some(json[2]) ELSE None

u8_from_json(json) ==
    IF json[1] = "number" /\ json[2] >= 0 /\ json[2] <= 255 THEN Some(json[2]) ELSE None

\* Option<String>, Option<u64>: null is read as None, anything else as the
\* type reads it
Option_String_from_json(json) ==
    IF json[1] = "null" THEN Some(None)
    ELSE LET r == String_from_json(json)
         IN  IF IsNone(r) THEN None ELSE Some(r)

Option_u64_from_json(json) ==
    IF json[1] = "null" THEN Some(None)
    ELSE LET r == u64_from_json(json)
         IN  IF IsNone(r) THEN None ELSE Some(r)

\* A member of an Option type that the object does not have is read like null
OptionMember(members, name) ==
    IF name \in DOMAIN members THEN members[name] ELSE JNull

UnitTransactionTypes ==
    { "DataSubmission", "DataAccess", "CredentialVerification", "TokenTransfer",
      "SmartContractInteraction" }

TransactionType_from_json(json) ==
    IF json[1] = "string"
    THEN IF json[2] \in UnitTransactionTypes THEN Some(<<json[2]>>) ELSE None
    ELSE IF json[1] = "object" /\ DOMAIN json[2] = {"Custom"}
    THEN LET s == String_from_json(json[2].Custom)
         IN  IF IsNone(s) THEN None ELSE Some(Custom(Unwrap(s)))
    ELSE None

TransactionStatuses == { "Pending", "Confirmed", "Failed", "Rejected" }

TransactionStatus_from_json(json) ==
    IF json[1] = "string" /\ json[2] \in TransactionStatuses THEN Some(json[2]) ELSE None

Transaction_from_json(json) ==
    IF json[1] /= "object" THEN None
    ELSE IF ~({"id", "transaction_type", "sender", "timestamp", "data", "status"}
                 \subseteq DOMAIN json[2]) THEN None
    ELSE LET o == json[2]
             id == String_from_json(o.id)
             transaction_type == TransactionType_from_json(o.transaction_type)
             sender == String_from_json(o.sender)
             recipient == Option_String_from_json(OptionMember(o, "recipient"))
             timestamp == u64_from_json(o.timestamp)
             data == String_from_json(o.data)
             signature == Option_String_from_json(OptionMember(o, "signature"))
             gas_fee == Option_u64_from_json(OptionMember(o, "gas_fee"))
             status == TransactionStatus_from_json(o.status)
         IN  IF \/ IsNone(id) \/ IsNone(transaction_type) \/ IsNone(sender)
                \/ IsNone(recipient) \/ IsNone(timestamp) \/ IsNone(data)
                \/ IsNone(signature) \/ IsNone(gas_fee) \/ IsNone(status)
             THEN None
             ELSE Some([ id               |-> Unwrap(id),
                         transaction_type |-> Unwrap(transaction_type),
                         sender           |-> Unwrap(sender),
                         recipient        |-> Unwrap(recipient),
                         timestamp        |-> Unwrap(timestamp),
                         data             |-> Unwrap(data),
                         signature        |-> Unwrap(signature),
                         gas_fee          |-> Unwrap(gas_fee),
                         status           |-> Unwrap(status) ])

\* Vec<Transaction>: every element of the array has to be read
Vec_Transaction_from_json(json) ==
    IF json[1] /= "array" THEN None
    ELSE LET rs == [i \in 1..Len(json[2]) |-> Transaction_from_json(json[2][i])]
         IN  IF \E i \in 1..Len(rs) : IsNone(rs[i]) THEN None
             ELSE Some([i \in 1..Len(rs) |-> Unwrap(rs[i])])

\* Deserialize reads each member into its field and checks nothing else: the
\* hash member is taken as the document gives it
Block_from_json(json) ==
    IF json[1] /= "object" THEN None
    ELSE IF ~({"index", "timestamp", "transactions", "previous_hash", "hash", "nonce",
               "difficulty"} \subseteq DOMAIN json[2]) THEN None
    ELSE LET o == json[2]
             index == u64_from_json(o.index)
             timestamp == u64_from_json(o.timestamp)
             transactions == Vec_Transaction_from_json(o.transactions)
             previous_hash == String_from_json(o.previous_hash)
             hash == String_from_json(o.hash)
             nonce == u64_from_json(o.nonce)
             d == u8_from_json(o.difficulty)
         IN  IF \/ IsNone(index) \/ IsNone(timestamp) \/ IsNone(transactions)
                \/ IsNone(previous_hash) \/ IsNone(hash) \/ IsNone(nonce) \/ IsNone(d)
             THEN None
             ELSE Some([ index         |-> Unwrap(index),
                         timestamp     |-> Unwrap(timestamp),
                         transactions  |-> Unwrap(transactions),
                         previous_hash |-> Unwrap(previous_hash),
                         hash          |-> Unwrap(hash),
                         nonce         |-> Unwrap(nonce),
                         difficulty    |-> Unwrap(d) ])

Vec_Block_from_json(json) ==
    IF json[1] /= "array" THEN None
    ELSE LET rs == [i \in 1..Len(json[2]) |-> Block_from_json(json[2][i])]
         IN  IF \E i \in 1..Len(rs) : IsNone(rs[i]) THEN None
             ELSE Some([i \in 1..Len(rs) |-> Unwrap(rs[i])])

Blockchain_from_json(json) ==
    IF json[1] /= "object" THEN None
    ELSE IF ~({"chain", "pending_transactions", "difficulty", "mining_reward"}
                 \subseteq DOMAIN json[2]) THEN None
    ELSE LET o == json[2]
             c == Vec_Block_from_json(o.chain)
             pool == Vec_Transaction_from_json(o.pending_transactions)
             d == u8_from_json(o.difficulty)
             reward == u64_from_json(o.mining_reward)
         IN  IF IsNone(c) \/ IsNone(pool) \/ IsNone(d) \/ IsNone(reward)
             THEN None
             ELSE Some([ chain                |-> Unwrap(c),
                         pending_transactions |-> Unwrap(pool),
                         difficulty           |-> Unwrap(d),
                         mining_reward        |-> Unwrap(reward) ])

----------------------------------------------------------------------------
(* A ledger decoded from JSON *)

\* The documents a caller decodes a ledger from: one with no block at all
JsonLedgers ==
    { JObject([ chain                |-> JArray(<< >>),
                pending_transactions |-> JArray(<< >>),
                difficulty           |-> JNumber(cfg[1]),
                mining_reward        |-> JNumber(cfg[2]) ]) : cfg \in Configs }

InitLoaded ==
    /\ now = 0
    /\ \E bc \in { Blockchain_new(cfg[1], cfg[2], now) : cfg \in Configs }
                 \cup { Unwrap(Blockchain_from_json(json)) : json \in JsonLedgers } :
          /\ chain = bc.chain
          /\ pending_transactions = bc.pending_transactions
          /\ difficulty = bc.difficulty
          /\ mining_reward = bc.mining_reward
    /\ ret = NoCall
    /\ Idle

SpecLoaded == InitLoaded /\ [][Next]_vars

----------------------------------------------------------------------------
(* Writing a value as JSON and reading it back *)

\* Transactions as callers hold them: built by the constructors, or with the
\* public fields set by hand (a Custom type, also one carrying the name of
\* another variant; a recipient that is present and empty; a fee of 0; a
\* status other than Pending)
JsonTransactions(t) ==
    LET a == Transaction_new(Custom(scan), alice, sample, t)
    IN  TxInputs(t)
        \cup { a,
               [with_recipient(a, EMPTY) EXCEPT !.status = "Confirmed"],
               [with_gas_fee(a, 0) EXCEPT
                   !.transaction_type = Custom(<<68, 97, 116, 97, 65, 99, 99, 101, 115, 115>>),
                   !.status = "Rejected"] }

\* A caller writes a transaction it holds and reads it back, before anything
\* is submitted to the ledger
TransactionRoundTrip ==
    /\ Len(chain) = 1
    /\ pending_transactions = << >>
    /\ \E tx \in JsonTransactions(now) :
       LET r == Transaction_from_json(Transaction_to_json(tx))
       IN  /\ ret' = [NoCall EXCEPT !.op = "Transaction::from_json", !.ok = IsSome(r),
                                    !.value = Some(tx), !.decoded = r]
           /\ UNCHANGED <<ledger, now, block, txn, tampered>>

\* The latest block is written and read back
BlockRoundTrip ==
    \E i \in {Len(chain)} :
       LET r == Block_from_json(Block_to_json(chain[i]))
       IN  /\ ret' = [NoCall EXCEPT !.op = "Block::from_json", !.ok = IsSome(r),
                                    !.value = Some(chain[i]), !.decoded = r]
           /\ UNCHANGED <<ledger, now, block, txn, tampered>>

BlockchainRoundTrip ==
    LET bc == [ chain                |-> chain,
                pending_transactions |-> pending_transactions,
                difficulty           |-> difficulty,
                mining_reward        |-> mining_reward ]
        r == Blockchain_from_json(Blockchain_to_json(bc))
    IN  /\ ret' = [NoCall EXCEPT !.op = "Blockchain::from_json", !.ok = IsSome(r),
                                 !.value = Some(bc), !.decoded = r]
        /\ UNCHANGED <<ledger, now, block, txn, tampered>>

NextJson ==
    \/ Next
    \/ TransactionRoundTrip
    \/ BlockRoundTrip
    \/ BlockchainRoundTrip

SpecJson == Init /\ [][NextJson]_vars

----------------------------------------------------------------------------
(* A block held by a caller *)

\* The arguments callers give Block::new
BlockIndexes == {0, 1}
BlockPreviousHashes == { GENESIS_PREVIOUS_HASH, hash_sha256(GENESIS_PREVIOUS_HASH) }
BlockTransactions(t) ==
    { << >>, << sign(Transaction_new(DataSubmission, alice, sample, t), <<51, 102>>) >> }
BlockDifficulties == {0, 1, 2}

\* The documents a caller decodes a block from: written by hand or changed in
\* transit, their hash member is whatever the document says
JsonBlocks(t) ==
    { JObject([ index         |-> JNumber(1),
                timestamp     |-> JNumber(t),
                transactions  |-> JArray(<< >>),
                previous_hash |-> JString(GENESIS_PREVIOUS_HASH),
                hash          |-> JString(h),
                nonce         |-> JNumber(n),
                difficulty    |-> JNumber(d) ]) :
         h \in { Repeat0(HashLen), hash_sha256(EMPTY) }, n \in {0, 7}, d \in BlockDifficulties }

BlockNew ==
    \E index \in BlockIndexes, previous_hash \in BlockPreviousHashes,
       transactions \in BlockTransactions(now), d \in BlockDifficulties :
          /\ block' = [b |-> Some(Block_new(index, previous_hash, transactions, d, now)),
                       op |-> "new"]
          /\ UNCHANGED <<ledger, now, ret, txn, tampered>>

BlockFromJson ==
    \E json \in JsonBlocks(now) :
          /\ IsSome(Block_from_json(json))
          /\ block' = [b |-> Block_from_json(json), op |-> "from_json"]
          /\ UNCHANGED <<ledger, now, ret, txn, tampered>>

BlockMine ==
    /\ IsSome(block.b)
    /\ LET mined == mine(Unwrap(block.b))
       IN  /\ Returned(mined)
           /\ block' = [b |-> Some(mined), op |-> "mine"]
    /\ UNCHANGED <<ledger, now, ret, txn, tampered>>

InitBlock ==
    /\ now = 0
    /\ LET bc == Blockchain_new(0, 50, now)
       IN  /\ chain = bc.chain
           /\ pending_transactions = bc.pending_transactions
           /\ difficulty = bc.difficulty
           /\ mining_reward = bc.mining_reward
    /\ ret = NoCall
    /\ Idle

NextBlock ==
    \/ Tick
    \/ BlockNew
    \/ BlockFromJson
    \/ BlockMine

SpecBlock == InitBlock /\ [][NextBlock]_vars

----------------------------------------------------------------------------
(* Block::mine, one turn of its loop at a time *)

\* u64::MAX, the last value of the nonce field: the nonce range of the model
\* ends where its searches end
u64_MAX == NonceCap

\* difficulty: u8 goes past the length of a digest
MineDifficulties == {0, 1, HashLen + 1}

\* The blocks a caller decodes and then mines: a block written by to_json, with
\* the nonce the document says and with the hash of its members or another
\* string as its hash member (a String of any length)
JsonBlocksToMine(t) ==
    UNION { { Block_to_json([b EXCEPT !.hash = h]) :
                 h \in { calculate_hash(b), Repeat0(b.difficulty), hash_sha256(EMPTY) } } :
            b \in { [Block_new(1, GENESIS_PREVIOUS_HASH, << >>, d, t) EXCEPT !.nonce = n] :
                      n \in {0, u64_MAX}, d \in MineDifficulties } }

\* while mine() runs the caller's block is borrowed by it (&mut self)
BlockNewToMine ==
    /\ block.op /= "mining"
    /\ \E index \in BlockIndexes, previous_hash \in BlockPreviousHashes,
          transactions \in BlockTransactions(now), d \in MineDifficulties :
          block' = [b |-> Some(Block_new(index, previous_hash, transactions, d, now)),
                    op |-> "new"]
    /\ UNCHANGED <<ledger, now, ret, txn, tampered>>

BlockFromJsonToMine ==
    /\ block.op /= "mining"
    /\ \E json \in JsonBlocksToMine(now) :
          /\ IsSome(Block_from_json(json))
          /\ block' = [b |-> Block_from_json(json), op |-> "from_json"]
    /\ UNCHANGED <<ledger, now, ret, txn, tampered>>

\* The call of mine(): the block as it was handed over is kept as at_call.
\* overflow_checks is the build's setting for integer overflow (on in a debug
\* build, off in a release build).
MineCall ==
    /\ block.op \in {"new", "from_json"}
    /\ \E overflow_checks \in BOOLEAN :
          block' = [b |-> block.b, op |-> "mining", at_call |-> Unwrap(block.b),
                    overflow_checks |-> overflow_checks]
    /\ UNCHANGED <<ledger, now, ret, txn, tampered>>

\* the condition of the while loop
mine_continues(b) == ~StartsWith(b.hash, Repeat0(b.difficulty))

\* self.nonce += 1; self.hash = self.calculate_hash()
mine_body(b, nonce) ==
    LET b1 == [b EXCEPT !.nonce = nonce]
    IN  [b1 EXCEPT !.hash = calculate_hash(b1)]

MineIterate ==
    /\ block.op = "mining"
    /\ mine_continues(Unwrap(block.b))
    /\ Unwrap(block.b).nonce < u64_MAX
    /\ block' = [block EXCEPT !.b = Some(mine_body(Unwrap(block.b),
                                                    Unwrap(block.b).nonce + 1))]
    /\ UNCHANGED <<ledger, now, ret, txn, tampered>>

\* nonce += 1 at u64::MAX with overflow checks: the thread panics
MineOverflowPanic ==
    /\ block.op = "mining"
    /\ mine_continues(Unwrap(block.b))
    /\ Unwrap(block.b).nonce = u64_MAX
    /\ block.overflow_checks
    /\ block' = [block EXCEPT !.op = "panicked"]
    /\ UNCHANGED <<ledger, now, ret, txn, tampered>>

\* nonce += 1 at u64::MAX without overflow checks: the nonce wraps to 0
MineOverflowWrap ==
    /\ block.op = "mining"
    /\ mine_continues(Unwrap(block.b))
    /\ Unwrap(block.b).nonce = u64_MAX
    /\ ~block.overflow_checks
    /\ block' = [block EXCEPT !.b = Some(mine_body(Unwrap(block.b), 0))]
    /\ UNCHANGED <<ledger, now, ret, txn, tampered>>

MineReturn ==
    /\ block.op = "mining"
    /\ ~mine_continues(Unwrap(block.b))
    /\ block' = [block EXCEPT !.op = "returned"]
    /\ UNCHANGED <<ledger, now, ret, txn, tampered>>

\* a turn of the running loop
MineStep ==
    \/ MineIterate
    \/ MineOverflowPanic
    \/ MineOverflowWrap
    \/ MineReturn

NextMine ==
    \/ Tick
    \/ BlockNewToMine
    \/ BlockFromJsonToMine
    \/ MineCall
    \/ MineIterate
    \/ MineOverflowPanic
    \/ MineOverflowWrap
    \/ MineReturn

\* mine() is a loop without a suspension point: once called, its thread keeps
\* taking turns
SpecMine == InitBlock /\ [][NextMine]_vars /\ WF_vars(MineStep)

----------------------------------------------------------------------------
(* A transaction held by a caller *)

TransactionTypes == {DataSubmission, TokenTransfer}
Senders == {alice, bob}
Payloads == {sample, scan}

GenerateKeypair ==
    \E private_key \in PrivateKeys :
          /\ txn' = [txn EXCEPT !.keypair = Some(generate_keypair(private_key)),
                                !.verified = None]
          /\ UNCHANGED <<ledger, now, ret, block, tampered>>

TxNew ==
    \E transaction_type \in TransactionTypes, sender \in Senders, data \in Payloads :
          /\ txn' = [txn EXCEPT !.tx = Some(Transaction_new(transaction_type, sender, data, now)),
                                !.signed_with = None, !.sign_ret = None,
                                !.verified = None]
          /\ UNCHANGED <<ledger, now, ret, block, tampered>>

TxWithRecipient ==
    /\ IsSome(txn.tx)
    /\ \E recipient \in Senders :
          txn' = [txn EXCEPT !.tx = Some(with_recipient(Unwrap(txn.tx), recipient)),
                             !.signed_with = None, !.sign_ret = None,
                                !.verified = None]
    /\ UNCHANGED <<ledger, now, ret, block, tampered>>

TxWithGasFee ==
    /\ IsSome(txn.tx)
    /\ txn' = [txn EXCEPT !.tx = Some(with_gas_fee(Unwrap(txn.tx), 21000)),
                          !.signed_with = None, !.sign_ret = None,
                                !.verified = None]
    /\ UNCHANGED <<ledger, now, ret, block, tampered>>

\* Key material that is no output of generate_key: "" and "z"
MalformedKeys == { EMPTY, <<122>> }

\* Transaction::sign with the private key of the pair, or with a string that
\* is no key; the Result and the signature before the call are kept
TxSign ==
    /\ IsSome(txn.tx)
    /\ IsSome(txn.keypair)
    /\ \E private_key \in { Unwrap(txn.keypair)[1] } \cup MalformedKeys :
          LET r == sign_result(Unwrap(txn.tx), private_key)
          IN  txn' = [txn EXCEPT !.tx = Some(r.tx),
                                 !.signed_with = Some(private_key),
                                 !.sign_ret = Some([ok |-> r.ok, err |-> r.err,
                                                    before |-> Unwrap(txn.tx).signature]),
                                 !.verified = None]
    /\ UNCHANGED <<ledger, now, ret, block, tampered>>

TxVerify ==
    /\ IsSome(txn.tx)
    /\ IsSome(txn.keypair)
    /\ txn' = [txn EXCEPT !.verified =
                  Some(Transaction_verify_signature(Unwrap(txn.tx), Unwrap(txn.keypair)[2]))]
    /\ UNCHANGED <<ledger, now, ret, block, tampered>>

InitTx ==
    /\ now = 0
    /\ LET bc == Blockchain_new(0, 50, now)
       IN  /\ chain = bc.chain
           /\ pending_transactions = bc.pending_transactions
           /\ difficulty = bc.difficulty
           /\ mining_reward = bc.mining_reward
    /\ ret = NoCall
    /\ Idle

NextTx ==
    \/ Tick
    \/ GenerateKeypair
    \/ TxNew
    \/ TxWithRecipient
    \/ TxWithGasFee
    \/ TxSign
    \/ TxVerify

SpecTx == InitTx /\ [][NextTx]_vars

----------------------------------------------------------------------------
(* A committed block changed behind the ledger's back *)

OtherTx(t) == Transaction_new(DataSubmission, carol, scan, t)

\* The ways to change one field of a transaction
TxTamperings(tx) ==
    { <<"tx.id", [tx EXCEPT !.id = Repeat0(HashLen - 1) \o <<ZERO + 1>>]>>,
      <<"tx.transaction_type", [tx EXCEPT !.transaction_type = Custom(scan)]>>,
      <<"tx.sender", [tx EXCEPT !.sender = carol]>>,
      <<"tx.recipient", [tx EXCEPT !.recipient = Some(SYSTEM)]>>,
      <<"tx.timestamp", [tx EXCEPT !.timestamp = tx.timestamp + 1]>>,
      <<"tx.data", [tx EXCEPT !.data = tx.data \o <<ZERO>>]>>,
      <<"tx.signature", [tx EXCEPT !.signature = None]>>,
      <<"tx.gas_fee", [tx EXCEPT !.gas_fee = Some(1)]>>,
      <<"tx.status", [tx EXCEPT !.status = "Confirmed"]>> }

\* The ways to change one field of a block, the stored hash left as it was
BlockTamperings(b) ==
    { <<"index", [b EXCEPT !.index = b.index + 1]>>,
      <<"timestamp", [b EXCEPT !.timestamp = b.timestamp + 1]>>,
      <<"previous_hash", [b EXCEPT !.previous_hash = b.previous_hash \o <<ZERO>>]>>,
      <<"nonce", [b EXCEPT !.nonce = b.nonce + 1]>>,
      <<"transactions", [b EXCEPT !.transactions = Append(b.transactions, OtherTx(b.timestamp))]>> }
    \cup { <<"transactions", [b EXCEPT !.transactions = SubSeq(b.transactions, 1, n - 1)]>> :
              n \in {Len(b.transactions)} \ {0} }
    \cup { <<"difficulty", [b EXCEPT !.difficulty = d]>> : d \in {0, 1, 2} \ {b.difficulty} }
    \cup UNION { { <<tt[1], [b EXCEPT !.transactions[j] = tt[2]]>> :
                      tt \in TxTamperings(b.transactions[j]) } :
                 j \in 1..Len(b.transactions) }

\* A caller writes one public field of a block appended by mining (the first
\* block is left alone: it is never mined and is_chain_valid never validates it)
TamperBlock ==
    /\ tampered = None
    /\ is_chain_valid(chain)
    /\ \E i \in 2..Len(chain) : \E bt \in BlockTamperings(chain[i]) :
          /\ is_valid(chain[i])
          /\ bt[2] /= chain[i]
          /\ chain' = [chain EXCEPT ![i] = bt[2]]
          /\ tampered' = Some([position |-> i, field |-> bt[1]])
    /\ UNCHANGED <<pending_transactions, difficulty, mining_reward, now, ret, block, txn>>

LedgerStep ==
    /\ tampered = None
    /\ Next

NextTamper ==
    \/ LedgerStep
    \/ TamperBlock

SpecTamper == Init /\ [][NextTamper]_vars

----------------------------------------------------------------------------
(* Properties of the ledger *)

Tip(c) == c[Len(c)]

\* the number of leading '0' characters of a string
RECURSIVE LeadingZeros(_)
LeadingZeros(s) ==
    IF s = << >> \/ Head(s) /= ZERO THEN 0 ELSE 1 + LeadingZeros(Tail(s))

IsMineCall(r) == r.op = "mine_pending_transactions"
IsAddCall(r) == r.op = "add_transaction"

\* C1: in every state reached from Blockchain::new by add_transaction and
\* mine_pending_transactions, is_chain_valid() is true: every block after the
\* first has the index of its predecessor plus one, carries its predecessor's
\* hash, stores the hash of its own fields, and that hash has at least
\* `difficulty` leading '0' characters.
ChainAlwaysValid ==
    /\ is_chain_valid(chain)
    /\ \A i \in 2..Len(chain) :
          /\ chain[i].index = chain[i - 1].index + 1
          /\ chain[i].previous_hash = chain[i - 1].hash
          /\ chain[i].hash = calculate_hash(chain[i])
          /\ LeadingZeros(chain[i].hash) >= chain[i].difficulty
          /\ chain[i].difficulty = difficulty

TwoMinedBlocksAtDifficultyOne ==
    /\ Len(chain) = 3
    /\ difficulty = 1
    /\ chain[2].nonce > 0
    /\ chain[3].nonce > 0

\* C3: a successful mine_pending_transactions appends exactly one block, at the
\* tip's index plus one, linked to the tip's hash, with the chain's difficulty;
\* it leaves the pool empty and returns the block now at the tip.
SuccessfulMineAppendsOneBlock ==
    [][ (IsMineCall(ret') /\ ret'.ok) =>
            /\ IsSome(ret'.block)
            /\ chain' = Append(chain, Unwrap(ret'.block))
            /\ Tip(chain') = Unwrap(ret'.block)
            /\ Tip(chain').index = Tip(chain).index + 1
            /\ Tip(chain').previous_hash = Tip(chain).hash
            /\ Tip(chain').difficulty = difficulty
            /\ pending_transactions' = << >> ]_vars

SecondBlockMined ==
    /\ IsMineCall(ret)
    /\ ret.ok
    /\ Len(chain) = 3
    /\ pending_transactions = << >>

\* C4: the block of a successful mine_pending_transactions holds the pool of
\* the call, in pool order, then one reward transaction: a TokenTransfer from
\* "System" to the miner whose data is "Reward: " and the mining reward.
MinedBlockIsPoolThenReward ==
    [][ (IsMineCall(ret') /\ ret'.ok) =>
            LET txs == Unwrap(ret'.block).transactions
                n == Len(pending_transactions)
            IN  /\ Len(txs) = n + 1
                /\ SubSeq(txs, 1, n) = pending_transactions
                /\ txs[n + 1].transaction_type = TokenTransfer
                /\ txs[n + 1].sender = SYSTEM
                /\ txs[n + 1].recipient = Some(ret'.miner)
                /\ txs[n + 1].data = REWARD \o ToDec(mining_reward) ]_vars

BlockOfTwoDistinctAndReward ==
    /\ IsMineCall(ret)
    /\ ret.ok
    /\ Len(Unwrap(ret.block).transactions) = 3
    /\ Unwrap(ret.block).transactions[1] /= Unwrap(ret.block).transactions[2]
    /\ ret.miner = carol

\* C5: add_transaction fails with InvalidTransaction exactly when the
\* transaction has no signature; a transaction with a signature is accepted
\* whether or not the signature verifies, and is appended to the pool.
AddRejectsExactlyUnsigned ==
    [][ IsAddCall(ret') =>
            LET tx == Unwrap(ret'.tx)
            IN  /\ (~ret'.ok /\ ret'.err = InvalidTransaction) <=> IsNone(tx.signature)
                /\ ret'.ok <=> IsSome(tx.signature)
                /\ IsSome(tx.signature)
                      => pending_transactions' = Append(pending_transactions, tx) ]_vars

AcceptedWithUnverifiableSignature ==
    /\ IsAddCall(ret)
    /\ ret.ok
    /\ Len(pending_transactions) = 2
    /\ Tip(pending_transactions) = Unwrap(ret.tx)
    /\ \A k \in PrivateKeys :
          ~Transaction_verify_signature(Unwrap(ret.tx), generate_keypair(k)[2])

\* C6: mine_pending_transactions on an empty pool fails with EmptyPool without
\* mining, and leaves the chain and the pool as they were.
MineOnEmptyPoolFails ==
    [][ (IsMineCall(ret') /\ pending_transactions = << >>) =>
            /\ ~ret'.ok
            /\ ret'.err = EmptyPool
            /\ ~ret'.mined
            /\ IsNone(ret'.block)
            /\ Len(chain') = Len(chain)
            /\ chain' = chain
            /\ pending_transactions' = pending_transactions ]_vars

EmptyPoolAfterABlock ==
    /\ IsMineCall(ret)
    /\ ret.err = EmptyPool
    /\ Len(chain) = 2
    /\ pending_transactions = << >>

\* C7: a call that returns an error leaves the chain, the pool, the difficulty
\* and the mining reward as they were.
FailureLeavesLedgerUnchanged ==
    [][ ~ret'.ok =>
            /\ chain' = chain
            /\ pending_transactions' = pending_transactions
            /\ difficulty' = difficulty
            /\ mining_reward' = mining_reward ]_vars

MineFailedOnEmptyChainWithPool ==
    /\ IsMineCall(ret)
    /\ ~ret.ok
    /\ ret.err = ChainEmpty
    /\ chain = << >>
    /\ Len(pending_transactions) = 2

\* C2: once Block::mine() has returned, the block's stored hash has at least
\* `difficulty` leading '0' characters and Block::is_valid() is true.
MinedBlockIsValid ==
    block.op = "mine" =>
        /\ LeadingZeros(Unwrap(block.b).hash) >= Unwrap(block.b).difficulty
        /\ is_valid(Unwrap(block.b))

\* C8: once one field of a committed block of a valid chain is changed and its
\* stored hash is not, is_valid() is false for that block and is_chain_valid()
\* is false for the chain.
TamperingIsDetected ==
    IsSome(tampered) =>
        /\ ~is_valid(chain[Unwrap(tampered).position])
        /\ ~is_chain_valid(chain)

\* the ids of the committed transactions, block after block
CommittedIds == Concat([i \in 1..Len(chain) |->
                          [j \in 1..Len(chain[i].transactions) |-> chain[i].transactions[j].id]])

\* C9: no transaction id occurs in two blocks of the chain, or twice in a block.
NoTransactionIdTwice ==
    \A i, j \in 1..Len(CommittedIds) : i /= j => CommittedIds[i] /= CommittedIds[j]

\* C10: when a transaction has been signed with the private key of a generated
\* key pair, verify_signature with the public key of the pair is true.
SignThenVerifyHolds ==
    ( /\ IsSome(txn.verified)
      /\ IsSome(txn.keypair)
      /\ txn.signed_with = Some(Unwrap(txn.keypair)[1]) )
        => Unwrap(txn.verified) = TRUE

\* the ledger is as Blockchain::new left it: no call has been made yet
IsFresh == now = 0 /\ ret = NoCall

\* C11: Blockchain::new(difficulty, reward) yields a chain of one block, with
\* index 0, previous_hash "0" and no transactions, and an empty pool; in every
\* state reached afterwards by add_transaction and mine_pending_transactions
\* the chain is not empty and its first block is still that block.
GenesisStaysFirst ==
    /\ Len(chain) >= 1
    /\ chain[1] = create_genesis_block(difficulty, 0)
    /\ chain[1].index = 0
    /\ chain[1].previous_hash = <<ZERO>>
    /\ chain[1].transactions = << >>
    /\ IsFresh => (Len(chain) = 1 /\ pending_transactions = << >>)

GenesisUnderTwoMinedBlocks ==
    /\ Len(chain) = 3
    /\ now = 1
    /\ chain[1].timestamp = 0
    /\ chain[1].index = 0
    /\ chain[3].index = 2

\* s is the beginning of t
IsPrefixOf(s, t) == Len(s) <= Len(t) /\ SubSeq(t, 1, Len(s)) = s

\* C12: the chain before a call is a prefix of the chain after it; the chain
\* grows by exactly one block in a successful mine_pending_transactions and by
\* none in any other step; the pool loses a transaction only in a successful
\* mine_pending_transactions.
AppendOnlyHistory ==
    [][ /\ IsPrefixOf(chain, chain')
        /\ Len(chain') = Len(chain) + (IF IsMineCall(ret') /\ ret'.ok THEN 1 ELSE 0)
        /\ ~(IsMineCall(ret') /\ ret'.ok)
              => IsPrefixOf(pending_transactions, pending_transactions') ]_vars

AddedAfterABlockWithPoolKept ==
    /\ IsAddCall(ret)
    /\ ret.ok
    /\ Len(chain) = 2
    /\ Len(chain[2].transactions) = 2
    /\ pending_transactions = <<Unwrap(ret.tx)>>

\* where find_transaction looks, in the order it looks: the pool, then the
\* blocks, each from its first transaction to its last
ScanOrder ==
    [k \in 1..Len(pending_transactions) |->
        [place |-> "pending_transactions", block |-> 0, at |-> k,
         tx |-> pending_transactions[k]]]
    \o Concat([i \in 1..Len(chain) |->
          [j \in 1..Len(chain[i].transactions) |->
              [place |-> "chain", block |-> i, at |-> j, tx |-> chain[i].transactions[j]]]])

\* C13: find_transaction(id) returns the first transaction with that id in the
\* pool taken in insertion order followed by the blocks in chain order, each in
\* transaction order; it returns nothing exactly when no transaction of the
\* pool or of a block has that id; an id that is both in the pool and in a
\* block is answered with the pool's entry.
FindReturnsFirstInScanOrder ==
    ret.op = "find_transaction" =>
        LET hits == { n \in 1..Len(ScanOrder) : ScanOrder[n].tx.id = ret.id }
        IN  /\ IsNone(ret.found) <=> hits = {}
            /\ \A n \in hits :
                  (\A m \in hits : n <= m) => ret.found = Some(ScanOrder[n])
            /\ (\E k \in 1..Len(pending_transactions) : pending_transactions[k].id = ret.id)
                  => /\ IsSome(ret.found)
                     /\ Unwrap(ret.found).place = "pending_transactions"

FoundInPoolThoughAlsoCommitted ==
    /\ ret.op = "find_transaction"
    /\ IsSome(ret.found)
    /\ Unwrap(ret.found).place = "pending_transactions"
    /\ Len(chain) = 2
    /\ chain[2].transactions[1].id = ret.id

\* C14: in every state reached from Blockchain::new by add_transaction and
\* mine_pending_transactions, every transaction of the pool has a signature.
PoolEntriesAreSigned ==
    \A k \in 1..Len(pending_transactions) : IsSome(pending_transactions[k].signature)

UnsignedTurnedAwayFromFilledPool ==
    /\ IsAddCall(ret)
    /\ ~ret.ok
    /\ IsNone(Unwrap(ret.tx).signature)
    /\ Len(pending_transactions) = 1
    /\ Len(chain) = 1

\* the transactions of the pool and of the blocks
Held ==
    { pending_transactions[k] : k \in 1..Len(pending_transactions) }
    \cup UNION { { chain[i].transactions[j] : j \in 1..Len(chain[i].transactions) } :
                 i \in 1..Len(chain) }

\* C15: a transaction is created with status Pending; sign, add_transaction and
\* the inclusion in a mined block leave the status as it was, so that a
\* transaction submitted as Pending is Pending in the pool and in its block.
StatusIsNeverAdvanced ==
    /\ \A tx \in TxInputs(now) :
          /\ tx.status = "Pending"
          /\ \A private_key \in PrivateKeys : sign(tx, private_key).status = tx.status
    /\ (IsAddCall(ret) /\ ret.ok) => Tip(pending_transactions).status = Unwrap(ret.tx).status
    /\ (IsMineCall(ret) /\ ret.ok) =>
          \A j \in 1..Len(Tip(chain).transactions) :
             Tip(chain).transactions[j].status = "Pending"
    /\ \A tx \in Held : tx.status = "Pending"

PendingInsideSecondBlock ==
    /\ IsMineCall(ret)
    /\ ret.ok
    /\ Len(chain) = 3
    /\ Len(chain[3].transactions) = 2
    /\ chain[3].transactions[1].status = "Pending"
    /\ IsSome(chain[3].transactions[1].signature)

\* a hex digit, as hex::encode writes it
IsHexDigit(ch) == ch \in 48..57 \/ ch \in 97..102

\* key material that is no hex encoding of bytes
Malformed(private_key) ==
    \/ private_key = EMPTY
    \/ Len(private_key) % 2 = 1
    \/ \E i \in 1..Len(private_key) : ~IsHexDigit(private_key[i])

\* C16: Transaction::sign given malformed key material fails with
\* SigningFailure and leaves the signature as it was; a signature is stored
\* only when signing succeeded.
SignFailsOnMalformedKey ==
    IsSome(txn.sign_ret) =>
        LET r == Unwrap(txn.sign_ret)
        IN  /\ Malformed(Unwrap(txn.signed_with))
                  => /\ ~r.ok
                     /\ r.err = SigningFailure
            /\ ~r.ok => Unwrap(txn.tx).signature = r.before

\* C17: mine_pending_transactions on a ledger whose chain is empty (a decoded
\* one) and whose pool is not returns the error ChainEmpty, which is neither
\* EmptyPool nor InvalidBlock, without mining and without changing the chain
\* or the pool.
EmptyChainIsChainEmpty ==
    [][ (IsMineCall(ret') /\ chain = << >> /\ pending_transactions /= << >>) =>
            /\ ~ret'.ok
            /\ ret'.err = ChainEmpty
            /\ ret'.err \notin {EmptyPool, InvalidBlock, InvalidTransaction}
            /\ ~ret'.mined
            /\ IsNone(ret'.block)
            /\ chain' = << >>
            /\ pending_transactions' = pending_transactions ]_vars

ChainEmptyReturnedToCarol ==
    /\ IsMineCall(ret)
    /\ ret.err = ChainEmpty
    /\ chain = << >>
    /\ Len(pending_transactions) = 1
    /\ ret.miner = carol
    /\ now = 1

IsRoundTrip(r) ==
    r.op \in {"Transaction::from_json", "Block::from_json", "Blockchain::from_json"}

\* C18: for a Transaction, a Block and a Blockchain x, from_json(to_json(x))
\* succeeds and yields a value equal to x in every field; an optional field
\* (recipient, signature, gas_fee) absent in x is absent in the result.
JsonRoundTripIsExact ==
    IsRoundTrip(ret) =>
        /\ ret.ok
        /\ IsSome(ret.decoded)
        /\ Unwrap(ret.decoded) = Unwrap(ret.value)
        /\ ret.op = "Transaction::from_json" =>
              LET x == Unwrap(ret.value)
                  y == Unwrap(ret.decoded)
              IN  /\ IsNone(x.recipient) <=> IsNone(y.recipient)
                  /\ IsNone(x.signature) <=> IsNone(y.signature)
                  /\ IsNone(x.gas_fee) <=> IsNone(y.gas_fee)
                  /\ x.transaction_type = y.transaction_type
                  /\ x.status = y.status

LedgerWithBlockAndPoolReadBack ==
    /\ ret.op = "Blockchain::from_json"
    /\ IsSome(ret.decoded)
    /\ Len(Unwrap(ret.decoded).chain) = 2
    /\ Len(Unwrap(ret.decoded).pending_transactions) = 1
    /\ IsNone(Unwrap(ret.decoded).pending_transactions[1].recipient)
    /\ IsSome(Unwrap(ret.decoded).chain[2].transactions[1].gas_fee)

\* C19: Block::mine() on a block fresh from Block::new (nonce 0, hash of nonce
\* 0) stops at the least nonce n >= 0 whose hash over index, previous_hash,
\* timestamp, transaction ids and n has at least `difficulty` leading '0'
\* characters; it changes the nonce and the hash only; when the hash of nonce 0
\* qualifies, as it always does at difficulty 0, the nonce stays 0.
MineStopsAtLeastNonce ==
    [][ (block.op = "new" /\ block'.op = "mine") =>
            LET b == Unwrap(block.b)
                m == Unwrap(block'.b)
                HashAt(n) == calculate_hash([b EXCEPT !.nonce = n])
            IN  /\ b.nonce = 0
                /\ b.hash = HashAt(0)
                /\ m = [b EXCEPT !.nonce = m.nonce, !.hash = m.hash]
                /\ m.nonce >= 0
                /\ m.hash = HashAt(m.nonce)
                /\ LeadingZeros(m.hash) >= b.difficulty
                /\ \A n \in 0..(m.nonce - 1) : LeadingZeros(HashAt(n)) < b.difficulty
                /\ LeadingZeros(HashAt(0)) >= b.difficulty => m.nonce = 0
                /\ b.difficulty = 0 => m.nonce = 0 ]_vars

MinedPastSeveralNonces ==
    /\ block.op = "mine"
    /\ Unwrap(block.b).transactions /= << >>
    /\ Unwrap(block.b).difficulty >= 1
    /\ Unwrap(block.b).nonce >= 3
    /\ is_valid(Unwrap(block.b))

\* C20: when mine_pending_transactions is called with a pool that is not empty
\* on a chain that is not empty and mining returns, the candidate has the index
\* of the latest block plus one, carries its hash and is valid, so the call
\* succeeds: no call returns InvalidBlock.
InvalidBlockIsNeverReturned ==
    [][ /\ ret'.err /= InvalidBlock
        /\ (IsMineCall(ret') /\ pending_transactions /= << >> /\ chain /= << >>) =>
              /\ ret'.mined
              /\ ret'.ok
              /\ LET candidate == Unwrap(ret'.block)
                     latest_block == Tip(chain)
                 IN  /\ candidate.index = latest_block.index + 1
                     /\ candidate.previous_hash = latest_block.hash
                     /\ is_valid(candidate)
                     /\ is_valid_new_block(candidate, latest_block) ]_vars

SearchedCandidateOfThreePassed ==
    /\ IsMineCall(ret)
    /\ ret.ok
    /\ ret.mined
    /\ difficulty = 1
    /\ Len(chain) = 2
    /\ Unwrap(ret.block).nonce > 0
    /\ Len(Unwrap(ret.block).transactions) = 3

\* C21: no accepted transaction is ever lost.  Every transaction of the pool or
\* of a block is still in the pool or in a block after any add_transaction or
\* mine_pending_transactions; a transaction add_transaction has accepted is in
\* the pool; find_transaction finds the id of every transaction the ledger
\* holds.  The copy of the pool into the block and the clearing of the pool are
\* one step, so no add_transaction comes between them.
NoAcceptedTransactionIsLost ==
    [][ /\ \A tx \in Held : tx \in Held'
        /\ (IsAddCall(ret') /\ ret'.ok) => Unwrap(ret'.tx) \in Held'
        /\ (IsMineCall(ret') /\ ret'.ok) =>
               /\ pending_transactions' = << >>
               /\ \A k \in 1..Len(pending_transactions) :
                     Tip(chain').transactions[k] = pending_transactions[k]
        /\ \A tx \in Held' :
               IsSome(find_transaction(chain', pending_transactions', tx.id))
        /\ (ret'.op = "find_transaction" /\ \E tx \in Held' : tx.id = ret'.id)
               => IsSome(ret'.found)
      ]_vars

FoundInBlockAfterPoolCleared ==
    /\ ret.op = "find_transaction"
    /\ IsSome(ret.found)
    /\ Unwrap(ret.found).place = "chain"
    /\ Unwrap(ret.found).block = 2
    /\ Unwrap(ret.found).at = 2
    /\ Unwrap(ret.found).tx.sender = bob
    /\ Len(chain[2].transactions) = 3
    /\ pending_transactions = << >>

\* some nonce from the block's nonce to the last one gives a hash with the
\* zeros the block's difficulty asks for
NonceAtOrAbove(b) ==
    \E n \in b.nonce..u64_MAX :
       StartsWith(calculate_hash([b EXCEPT !.nonce = n]), Repeat0(b.difficulty))

\* C22: mine() eventually returns when some nonce at or above the nonce the
\* block had at the call gives a hash with at least difficulty leading zeros;
\* when no such nonce exists, as for every difficulty greater than the length
\* of a digest, it never returns.
MineReturnsExactlyWhenANonceExists ==
    /\ (block.op = "mining" /\ NonceAtOrAbove(block.at_call)) ~> (block.op = "returned")
    /\ [](block.op = "returned" => NonceAtOrAbove(block.at_call))
    /\ [](block.op = "returned" => block.at_call.difficulty <= HashLen)

\* What the loop does do, in either build: it returns when the hash the block
\* came with has the zeros, or when a nonce above the block's own and up to
\* the last one gives a hash that has them; a block whose hash is the hash of
\* its fields returns only at a difficulty within the length of a digest.
MineReturnsWhenTheLoopMeetsANonce ==
    /\ (/\ block.op = "mining"
        /\ \/ ~mine_continues(block.at_call)
           \/ \E n \in (block.at_call.nonce + 1)..u64_MAX :
                 ~mine_continues(mine_body(block.at_call, n)))
          ~> (block.op = "returned")
    /\ [](/\ block.op = "returned"
          /\ block.at_call.hash = calculate_hash(block.at_call)
          => block.at_call.difficulty <= HashLen)

====
